---- MODULE Spec2Model ----
(***************************************************************************)
(* Transactional service layer of graph-api (GraphService) over the        *)
(* graph-context store.  Every service operation is a process that issues  *)
(* its store calls one at a time; each store call is one step, because the *)
(* awaits on the store are the only suspension points of an operation.     *)
(***************************************************************************)
EXTENDS Integers, Sequences, FiniteSets, TLC

\* ------------------------------------------------------------------ bounds
MaxOps == 2
MaxEntityId == 2
MaxRelationId == 1

Procs == {1, 2}

\* ------------------------------------------------------------ data values
\* A property value carries its primitive kind; strings are numbered.
StrVal(i) == [t |-> "string", v |-> i]
IntVal(n) == [t |-> "integer", v |-> n]

NonExistentId == 0

PropertyType ==
    {"string", "integer", "float", "boolean", "datetime", "uuid", "list", "dict"}

PropertyDefinition(kind, req) ==
    [cls |-> "PropertyDefinition", type |-> kind, required |-> req]

NoProps == <<>>

PersonDef ==
    [name |-> "Person",
     properties |-> ("name" :> PropertyDefinition("string", TRUE))
                    @@ ("age" :> PropertyDefinition("integer", TRUE)),
     from_types |-> {}, to_types |-> {}]

InvalidKindDef ==
    [name |-> "Company",
     properties |-> ("name" :> PropertyDefinition("INVALID_TYPE", TRUE)),
     from_types |-> {}, to_types |-> {}]

RawDictDef ==
    [name |-> "Company",
     properties |-> ("name" :> [cls |-> "dict", type |-> "string",
                                required |-> TRUE]),
     from_types |-> {}, to_types |-> {}]

KnowsDef ==
    [name |-> "KNOWS",
     properties |-> ("since" :> PropertyDefinition("integer", TRUE)),
     from_types |-> {"Person"}, to_types |-> {"Person"}]

DanglingDef ==
    [name |-> "WORKS_AT",
     properties |-> ("since" :> PropertyDefinition("integer", TRUE)),
     from_types |-> {"Person"}, to_types |-> {"NonExistentType"}]

InvalidKindRelDef ==
    [name |-> "WORKS_AT",
     properties |-> ("role" :> PropertyDefinition("INVALID_TYPE", TRUE)),
     from_types |-> {"Person"}, to_types |-> {"Person"}]

NoDef == [name |-> "", properties |-> NoProps, from_types |-> {}, to_types |-> {}]

EntityTypeDefs == {PersonDef, InvalidKindDef, RawDictDef}
RelationTypeDefs == {KnowsDef, DanglingDef, InvalidKindRelDef}

EntityTypeNames == {"Person", "INVALID_TYPE"}
RelationTypeNames == {"KNOWS", "INVALID_TYPE"}

Alice30 == ("name" :> StrVal(1)) @@ ("age" :> IntVal(30))
Bob28 == ("name" :> StrVal(2)) @@ ("age" :> IntVal(28))
Age31 == ("age" :> IntVal(31))
InvalidAge == ("name" :> StrVal(1)) @@ ("age" :> StrVal(9))
Since2023 == ("since" :> IntVal(2023))
Since2024 == ("since" :> IntVal(2024))
InvalidSince == ("since" :> StrVal(9))

EntityBags == {Alice30, Age31, InvalidAge}
RelationBags == {Since2023, InvalidSince}

QueryCondition(f, o, v) == [field |-> f, operator |-> o, value |-> v]
QuerySpec(t, conds) == [entity_type |-> t, conditions |-> conds]

NoQuery == QuerySpec("", <<>>)
QueryByName == QuerySpec("Person", <<QueryCondition("name", "eq", StrVal(1))>>)
QueryNameAndAge ==
    QuerySpec("Person", <<QueryCondition("name", "eq", StrVal(1)),
                          QueryCondition("age", "gt", IntVal(25))>>)
QueryInvalidType ==
    QuerySpec("INVALID_TYPE",
              <<QueryCondition("invalid_property", "eq", StrVal(9))>>)
QueryInvalidField ==
    QuerySpec("Person", <<QueryCondition("invalid_property", "eq", StrVal(9))>>)

QueryAllPersons == QuerySpec("Person", <<>>)

\* A condition on relations instead of a property.
RelationCondition(t, f, dir) ==
    [relation_type |-> t, from_entity |-> f, direction |-> dir]
QueryKnowsFrom == QuerySpec("Person", <<RelationCondition("KNOWS", 1, "outbound")>>)

QuerySpecs ==
    {QueryByName, QueryNameAndAge, QueryInvalidType, QueryInvalidField,
     QueryAllPersons, QueryKnowsFrom}

\* ------------------------------------------------------------- exceptions
Classified ==
    {"EntityNotFound", "RelationNotFound", "Validation", "Schema", "Conflict"}

\* Exception subclasses a store data call may raise.
StoreErrorKinds == Classified \cup {"Transaction", "Other"}

\* Exception subclasses a transaction call (begin, commit, rollback) may raise.
TxErrorKinds == {"Transaction"}

Err(k, m) == [kind |-> k, msg |-> m]
NoErr == Err("none", "")

\* ---------------------------------------------------------------- state
VARIABLES
    entity_types,     \* store: registered entity types, name -> definition
    relation_types,   \* store: registered relation types, name -> definition
    entities,         \* store: id -> [type, properties]
    relations,        \* store: id -> [type, from_entity, to_entity, properties]
    next_entity_id,   \* store: the id its next create_entity assigns
    next_relation_id, \* store: the id its next create_relation assigns
    in_transaction,   \* store: context._transaction._in_transaction
    saved,            \* store: the data a rollback restores
    missing_read,     \* store: how a read of an unknown id answers
    pc,               \* per operation: the store call it is about to issue
    req,              \* per operation: the service method and its arguments
    local,            \* per operation: entity_id / entity / e of the method
    log,              \* per operation: the store calls issued, with outcomes
    outcome,          \* per operation: what the method returned or raised
    before,           \* per operation: the store as it was when called
    last,             \* per caller: its previous call, when that one returned
    ops               \* operations started so far

store_vars ==
    <<entity_types, relation_types, entities, relations, next_entity_id,
      next_relation_id, in_transaction, saved, missing_read>>
op_vars == <<pc, req, local, log, outcome, before, last, ops>>
vars == <<store_vars, op_vars>>

\* ------------------------------------------------- store (graph-context)
Data ==
    [entity_types |-> entity_types, relation_types |-> relation_types,
     entities |-> entities, relations |-> relations]

EmptyData ==
    [entity_types |-> <<>>, relation_types |-> <<>>,
     entities |-> <<>>, relations |-> <<>>]

\* What the store holds durably: inside a transaction, the data saved at begin.
Committed == IF in_transaction THEN saved ELSE Data

\* What a caller sees of the store at the moment it calls the service.
Snapshot ==
    [entity_types |-> entity_types, relation_types |-> relation_types,
     entities |-> entities, relations |-> relations,
     in_transaction |-> in_transaction]

NoSnapshot ==
    [entity_types |-> <<>>, relation_types |-> <<>>,
     entities |-> <<>>, relations |-> <<>>, in_transaction |-> FALSE]

Without(f, k) == [x \in DOMAIN f \ {k} |-> f[x]]

\* dict.update: the supplied keys override, the others are kept.
Merge(old, new) ==
    [k \in DOMAIN old \cup DOMAIN new |-> IF k \in DOMAIN new THEN new[k] ELSE old[k]]

\* A property bag against a type definition: only defined properties, each of
\* the defined kind, and every required property present.
ValidProperties(def, props) ==
    /\ \A k \in DOMAIN props :
          k \in DOMAIN def.properties /\ props[k].t = def.properties[k].type
    /\ \A k \in DOMAIN def.properties :
          def.properties[k].required => k \in DOMAIN props

\* The outcome of a store data call on data d: an error to raise, or the new
\* data and the value returned.
Raises(k, call) == [err |-> Err(k, call), data |-> EmptyData, ret |-> 0]
Returns(d, r) == [err |-> NoErr, data |-> d, ret |-> r]

StoreRegisterEntityType(d, def) ==
    IF def.name \in DOMAIN d.entity_types
    THEN Raises("Conflict", "register_entity_type")
    ELSE Returns([d EXCEPT !.entity_types = (def.name :> def) @@ @], 0)

StoreRegisterRelationType(d, def) ==
    IF def.name \in DOMAIN d.relation_types
    THEN Raises("Conflict", "register_relation_type")
    ELSE IF ~((def.from_types \cup def.to_types) \subseteq DOMAIN d.entity_types)
    THEN Raises("Schema", "register_relation_type")
    ELSE Returns([d EXCEPT !.relation_types = (def.name :> def) @@ @], 0)

\* Mutant: the store creates entities of any type, registered or not.
StoreCreateEntity_AnyType(d, id, type, props) ==
    Returns([d EXCEPT !.entities =
                (id :> [type |-> type, properties |-> props]) @@ @], id)

StoreCreateEntity(d, id, type, props) ==
    IF type \notin DOMAIN d.entity_types
    THEN Raises("Schema", "create_entity")
    ELSE IF ~ValidProperties(d.entity_types[type], props)
    THEN Raises("Validation", "create_entity")
    ELSE Returns([d EXCEPT !.entities =
                     (id :> [type |-> type, properties |-> props]) @@ @], id)

StoreUpdateEntity(d, id, props) ==
    IF id \notin DOMAIN d.entities
    THEN Raises("EntityNotFound", "update_entity")
    ELSE IF ~ValidProperties(d.entity_types[d.entities[id].type],
                             Merge(d.entities[id].properties, props))
    THEN Raises("Validation", "update_entity")
    ELSE Returns([d EXCEPT !.entities[id].properties = Merge(@, props)], 0)

\* Mutant: the store deletes the entity and leaves its relations.
StoreDeleteEntity_NoCascade(d, id) ==
    IF id \notin DOMAIN d.entities
    THEN Raises("EntityNotFound", "delete_entity")
    ELSE Returns([d EXCEPT !.entities = Without(@, id)], 0)

\* Deleting an entity takes the relations that reference it with it.
StoreDeleteEntity(d, id) ==
    IF id \notin DOMAIN d.entities
    THEN Raises("EntityNotFound", "delete_entity")
    ELSE Returns([d EXCEPT
                    !.entities = Without(@, id),
                    !.relations = [r \in {x \in DOMAIN @ :
                                            /\ @[x].from_entity # id
                                            /\ @[x].to_entity # id} |-> @[r]]], 0)

\* The store looks the two endpoints up before anything else: whenever one of
\* them is unknown the answer is EntityNotFound.
StoreCreateRelation(d, id, type, from, to, props) ==
    IF from \notin DOMAIN d.entities \/ to \notin DOMAIN d.entities
    THEN Raises("EntityNotFound", "create_relation")
    ELSE IF type \notin DOMAIN d.relation_types
    THEN Raises("Schema", "create_relation")
    ELSE IF \/ d.entities[from].type \notin d.relation_types[type].from_types
            \/ d.entities[to].type \notin d.relation_types[type].to_types
            \/ ~ValidProperties(d.relation_types[type], props)
    THEN Raises("Validation", "create_relation")
    ELSE Returns([d EXCEPT !.relations =
                     (id :> [type |-> type, from_entity |-> from,
                             to_entity |-> to, properties |-> props]) @@ @], id)

StoreUpdateRelation(d, id, props) ==
    IF id \notin DOMAIN d.relations
    THEN Raises("RelationNotFound", "update_relation")
    ELSE IF ~ValidProperties(d.relation_types[d.relations[id].type],
                             Merge(d.relations[id].properties, props))
    THEN Raises("Validation", "update_relation")
    ELSE Returns([d EXCEPT !.relations[id].properties = Merge(@, props)], 0)

StoreDeleteRelation(d, id) ==
    IF id \notin DOMAIN d.relations
    THEN Raises("RelationNotFound", "delete_relation")
    ELSE Returns([d EXCEPT !.relations = Without(@, id)], 0)

\* A condition against a property bag.
Satisfies(props, c) ==
    /\ c.field \in DOMAIN props
    /\ props[c.field].t = c.value.t
    /\ CASE c.operator = "eq" -> props[c.field].v = c.value.v
         [] c.operator = "gt" -> props[c.field].v > c.value.v
         [] c.operator = "lt" -> props[c.field].v < c.value.v
         [] OTHER -> FALSE

\* The ids of S in ascending order.
Ascending(S) ==
    CHOOSE s \in [1..Cardinality(S) -> S] :
        \A i, j \in 1..Cardinality(S) : i < j => s[i] < s[j]

IsRelationCondition(c) == "relation_type" \in DOMAIN c

\* The relations of the condition's type that leave the entity named, as rows
\* with id, type, endpoints and properties.
StoreQueryRelations(d, c) ==
    IF c.relation_type \notin DOMAIN d.relation_types
    THEN Raises("Schema", "query")
    ELSE LET ids == Ascending({x \in DOMAIN d.relations :
                       /\ d.relations[x].type = c.relation_type
                       /\ d.relations[x].from_entity = c.from_entity})
         IN  Returns(d, [i \in DOMAIN ids |->
                             [id |-> ids[i], type |-> d.relations[ids[i]].type,
                              from_entity |-> d.relations[ids[i]].from_entity,
                              to_entity |-> d.relations[ids[i]].to_entity,
                              properties |-> d.relations[ids[i]].properties]])

\* The entities of the queried type that satisfy every condition, as rows
\* with id, type and properties.  The data is left as it is.
StoreQuery(d, q) ==
    IF q.entity_type \notin DOMAIN d.entity_types
    THEN Raises("Schema", "query")
    ELSE IF \E i \in DOMAIN q.conditions : IsRelationCondition(q.conditions[i])
    THEN StoreQueryRelations(d, q.conditions[1])
    ELSE IF \E i \in DOMAIN q.conditions :
               q.conditions[i].field
                   \notin DOMAIN d.entity_types[q.entity_type].properties
    THEN Raises("Validation", "query")
    ELSE LET ids == Ascending({x \in DOMAIN d.entities :
                       /\ d.entities[x].type = q.entity_type
                       /\ \A i \in DOMAIN q.conditions :
                             Satisfies(d.entities[x].properties, q.conditions[i])})
         IN  Returns(d, [i \in DOMAIN ids |->
                             [id |-> ids[i], type |-> d.entities[ids[i]].type,
                              properties |-> d.entities[ids[i]].properties]])

\* ------------------------------------------------- service (GraphService)
MutatingOps ==
    {"register_entity_type", "register_relation_type", "create_entity",
     "update_entity", "delete_entity", "create_relation", "update_relation",
     "delete_relation"}
RegisterOps == {"register_entity_type", "register_relation_type"}
CreateOps == {"create_entity", "create_relation"}
UpdateOps == {"update_entity", "update_relation"}
DeleteOps == {"delete_entity", "delete_relation"}
GetOps == {"get_entity", "get_relation"}
EntityOps == {"create_entity", "get_entity", "update_entity", "delete_entity"}
\* The methods that read the object back before they commit.
ReadBackOps == CreateOps \cup UpdateOps
\* The methods that read the object before they begin.
CheckedOps == UpdateOps \cup DeleteOps
\* The methods the type-existence routes call on the service.
TypeExistsOps == {"has_entity_type", "has_relation_type"}

NoReq ==
    [op |-> "none", type |-> "", id |-> NonExistentId, from_entity |-> NonExistentId,
     to_entity |-> NonExistentId, properties |-> NoProps, definition |-> NoDef,
     query_spec |-> NoQuery]

NoLocal == [entity_id |-> NonExistentId, entity |-> <<>>, e |-> NoErr]

NoOutcome == [status |-> "none", err |-> NoErr, value |-> <<>>]
Ok(v) == [status |-> "ok", err |-> NoErr, value |-> v]
Raised(e) == [status |-> "error", err |-> e, value |-> <<>>]

\* A call of the caller and what it returned.
Call(r, out) == [req |-> r, outcome |-> out]
NoCall == Call(NoReq, NoOutcome)

Logged(p, call, out, fault) ==
    Append(log[p], [call |-> call, out |-> out, fault |-> fault])

NotFoundKind(op) == IF op \in EntityOps THEN "EntityNotFound" ELSE "RelationNotFound"

NotFoundMsg(op, id) ==
    (IF op \in EntityOps THEN "Entity " ELSE "Relation ") \o ToString(id) \o " not found"

\* Mutant: update_entity's outer try lists ValidationError only.
Passthrough_DropsNotFound(op) ==
    CASE op = "register_relation_type" -> {"Validation", "Schema"}
      [] op \in {"register_entity_type", "create_entity", "update_entity"} ->
            {"Validation"}
      [] op = "delete_entity" -> {"EntityNotFound"}
      [] op = "create_relation" -> {"Validation", "EntityNotFound"}
      [] op = "update_relation" -> {"RelationNotFound", "Validation"}
      [] op = "delete_relation" -> {"RelationNotFound"}
      [] op = "query" -> {"Validation", "EntityNotFound"}
      [] OTHER -> {}

\* Mutant: register_relation_type's outer try lists ValidationError only.
Passthrough_RelationDropsSchema(op) ==
    CASE op \in {"register_entity_type", "register_relation_type",
                 "create_entity"} -> {"Validation"}
      [] op = "update_entity" -> {"EntityNotFound", "Validation"}
      [] op = "delete_entity" -> {"EntityNotFound"}
      [] op = "create_relation" -> {"Validation", "EntityNotFound"}
      [] op = "update_relation" -> {"RelationNotFound", "Validation"}
      [] op = "delete_relation" -> {"RelationNotFound"}
      [] op = "query" -> {"Validation", "EntityNotFound"}
      [] OTHER -> {}

\* Mutant: create_relation's outer try lists ValidationError only.
Passthrough_RelationDropsEntityNotFound(op) ==
    CASE op = "register_relation_type" -> {"Validation", "Schema"}
      [] op \in {"register_entity_type", "create_entity", "create_relation"} ->
            {"Validation"}
      [] op = "update_entity" -> {"EntityNotFound", "Validation"}
      [] op = "delete_entity" -> {"EntityNotFound"}
      [] op = "update_relation" -> {"RelationNotFound", "Validation"}
      [] op = "delete_relation" -> {"RelationNotFound"}
      [] op = "query" -> {"Validation", "EntityNotFound"}
      [] OTHER -> {}

\* Mutant: delete_entity's outer try re-raises nothing as it is.
Passthrough_DeleteDropsNotFound(op) ==
    CASE op = "register_entity_type" -> {"Validation"}
      [] op = "register_relation_type" -> {"Validation", "Schema"}
      [] op = "create_entity" -> {"Validation"}
      [] op = "update_entity" -> {"EntityNotFound", "Validation"}
      [] op = "create_relation" -> {"Validation", "EntityNotFound"}
      [] op = "update_relation" -> {"RelationNotFound", "Validation"}
      [] op = "delete_relation" -> {"RelationNotFound"}
      [] op = "query" -> {"Validation", "EntityNotFound"}
      [] OTHER -> {}

\* The exception classes the method's outer try re-raises as they are.
Passthrough(op) ==
    CASE op = "register_entity_type" -> {"Validation"}
      [] op = "register_relation_type" -> {"Validation", "Schema"}
      [] op = "create_entity" -> {"Validation"}
      [] op = "update_entity" -> {"EntityNotFound", "Validation"}
      [] op = "delete_entity" -> {"EntityNotFound"}
      [] op = "create_relation" -> {"Validation", "EntityNotFound"}
      [] op = "update_relation" -> {"RelationNotFound", "Validation"}
      [] op = "delete_relation" -> {"RelationNotFound"}
      [] op = "query" -> {"Validation", "EntityNotFound"}
      [] OTHER -> {}

\* Mutant: the outer try re-raises whatever reaches it.
Surface_PassesAll(op, e) == e

\* Mutant: the wrapper raises TransactionError with a text of its own.
Surface_DropsMessage(op, e) ==
    IF e.kind \in {"Validation", "EntityNotFound", "RelationNotFound", "Cancelled"}
    THEN e
    ELSE Err("Transaction", "Transaction failed")

\* except <passthrough>: raise / except Exception as e: raise
\* TransactionError(str(e)) -- in query, raise ValidationError(f"Invalid query
\* specification: {str(e)}").  CancelledError is no Exception: no clause of
\* the method catches it.
Surface(op, e) ==
    IF e.kind \in Passthrough(op) \cup {"Cancelled"}
    THEN e
    ELSE IF op = "query"
    THEN Err("Validation", "Invalid query specification: " \o e.msg)
    ELSE Err("Transaction", e.msg)

\* The inner handlers that call rollback_transaction whatever the store's flag.
RollsBackUnguarded(op) == op \in CreateOps

\* The existence reads that test the object read (if not entity: raise).
ChecksNone(op) == op \in {"delete_entity", "update_relation", "delete_relation"}

\* Mutant: the loop tests isinstance(prop_def, PropertyDefinition) only.
ValidateDefinition_SkipsKind(def) ==
    LET bad == {k \in DOMAIN def.properties :
                   def.properties[k].cls # "PropertyDefinition"}
    IN  IF bad = {} THEN NoErr
        ELSE Err("Validation", "Property " \o (CHOOSE k \in bad : TRUE)
                 \o " must be defined using PropertyDefinition")

\* The validation loop over the definition's properties.
ValidateDefinition(def) ==
    LET bad == {k \in DOMAIN def.properties :
                   \/ def.properties[k].cls # "PropertyDefinition"
                   \/ def.properties[k].type \notin PropertyType}
    IN  IF bad = {} THEN NoErr
        ELSE LET k == CHOOSE k \in bad : TRUE
             IN  IF def.properties[k].cls # "PropertyDefinition"
                 THEN Err("Validation", "Property " \o k
                          \o " must be defined using PropertyDefinition")
                 ELSE Err("Validation", "Property " \o k
                          \o " type must be a PropertyType enum value")

\* Mutant: update_entity calls the store without the properties supplied.
MutateCall_UpdateDropsProperties(d, r) ==
    CASE r.op = "register_entity_type" -> StoreRegisterEntityType(d, r.definition)
      [] r.op = "register_relation_type" -> StoreRegisterRelationType(d, r.definition)
      [] r.op = "create_entity" ->
            StoreCreateEntity(d, next_entity_id, r.type, r.properties)
      [] r.op = "update_entity" -> StoreUpdateEntity(d, r.id, NoProps)
      [] r.op = "delete_entity" -> StoreDeleteEntity(d, r.id)
      [] r.op = "create_relation" ->
            StoreCreateRelation(d, next_relation_id, r.type, r.from_entity,
                                r.to_entity, r.properties)
      [] r.op = "update_relation" -> StoreUpdateRelation(d, r.id, r.properties)
      [] r.op = "delete_relation" -> StoreDeleteRelation(d, r.id)

\* The store data call of a mutating method, on data d.
MutateCall(d, r) ==
    CASE r.op = "register_entity_type" -> StoreRegisterEntityType(d, r.definition)
      [] r.op = "register_relation_type" -> StoreRegisterRelationType(d, r.definition)
      [] r.op = "create_entity" ->
            StoreCreateEntity(d, next_entity_id, r.type, r.properties)
      [] r.op = "update_entity" -> StoreUpdateEntity(d, r.id, r.properties)
      [] r.op = "delete_entity" -> StoreDeleteEntity(d, r.id)
      [] r.op = "create_relation" ->
            StoreCreateRelation(d, next_relation_id, r.type, r.from_entity,
                                r.to_entity, r.properties)
      [] r.op = "update_relation" -> StoreUpdateRelation(d, r.id, r.properties)
      [] r.op = "delete_relation" -> StoreDeleteRelation(d, r.id)

\* The store read of a method (existence read, read-back or get).
ReadCall(op) == IF op \in EntityOps THEN "get_entity" ELSE "get_relation"
Objects(op) == IF op \in EntityOps THEN entities ELSE relations

\* Mutant: the dict is built without the properties read.
EntityDict_DropsProperties(id, entity) ==
    [id |-> id, entity_type |-> entity.type, properties |-> NoProps]

\* The dict a method returns for the object it read.
EntityDict(id, entity) ==
    [id |-> id, entity_type |-> entity.type, properties |-> entity.properties]

\* Mutant: the relation dict is built with the endpoints exchanged.
RelationDict_SwapsEndpoints(id, relation) ==
    [id |-> id, type |-> relation.type, from_entity |-> relation.to_entity,
     to_entity |-> relation.from_entity, properties |-> relation.properties]

RelationDict(id, relation) ==
    [id |-> id, type |-> relation.type, from_entity |-> relation.from_entity,
     to_entity |-> relation.to_entity, properties |-> relation.properties]

\* Mutant: get_entity names the type "type", as the relation methods do.
ResultDict_GetNamesType(op, id, obj) ==
    IF op = "get_entity"
    THEN [id |-> id, type |-> obj.type, properties |-> obj.properties]
    ELSE IF op \in EntityOps THEN EntityDict(id, obj) ELSE RelationDict(id, obj)

ResultDict(op, id, obj) ==
    IF op \in EntityOps THEN EntityDict(id, obj) ELSE RelationDict(id, obj)

AttributeError == Err("Other", "'NoneType' object has no attribute 'type'")

SetData(d) ==
    /\ entity_types' = d.entity_types
    /\ relation_types' = d.relation_types
    /\ entities' = d.entities
    /\ relations' = d.relations

data_vars == <<entity_types, relation_types, entities, relations>>

\* ------------------------------------------------------------ initial state
Store(et, rt, es, rs) ==
    [entity_types |-> et, relation_types |-> rt, entities |-> es, relations |-> rs]

Person1 == [type |-> "Person", properties |-> Alice30]
Person2 == [type |-> "Person", properties |-> Bob28]
Knows12 ==
    [type |-> "KNOWS", from_entity |-> 1, to_entity |-> 2, properties |-> Since2023]

\* Stores the service reaches from the empty BaseGraphContext of lifespan() by
\* committed register / create calls.
InitStores ==
    {Store(<<>>, <<>>, <<>>, <<>>),
     Store("Person" :> PersonDef, <<>>, <<>>, <<>>),
     Store("Person" :> PersonDef, "KNOWS" :> KnowsDef, 1 :> Person1, <<>>),
     Store("Person" :> PersonDef, "KNOWS" :> KnowsDef,
           (1 :> Person1) @@ (2 :> Person2), 1 :> Knows12)}

Init ==
    /\ \E d \in InitStores :
          /\ entity_types = d.entity_types
          /\ relation_types = d.relation_types
          /\ entities = d.entities
          /\ relations = d.relations
          /\ next_entity_id = Cardinality(DOMAIN d.entities) + 1
          /\ next_relation_id = Cardinality(DOMAIN d.relations) + 1
    /\ in_transaction = FALSE
    /\ saved = EmptyData
    /\ missing_read \in {"raise", "none"}
    /\ pc = [p \in Procs |-> "idle"]
    /\ req = [p \in Procs |-> NoReq]
    /\ local = [p \in Procs |-> NoLocal]
    /\ log = [p \in Procs |-> <<>>]
    /\ outcome = [p \in Procs |-> NoOutcome]
    /\ before = [p \in Procs |-> NoSnapshot]
    /\ last = [p \in Procs |-> NoCall]
    /\ ops = 0

\* ---------------------------------------------------------------- actions
EntityIds == 0..MaxEntityId
RelationIds == 0..MaxRelationId

Requests ==
    {[NoReq EXCEPT !.op = "register_entity_type", !.definition = d] :
        d \in EntityTypeDefs}
    \cup {[NoReq EXCEPT !.op = "register_relation_type", !.definition = d] :
        d \in RelationTypeDefs}
    \cup {[NoReq EXCEPT !.op = "create_entity", !.type = t, !.properties = b] :
        t \in EntityTypeNames, b \in EntityBags}
    \cup {[NoReq EXCEPT !.op = o, !.id = i] :
        o \in {"get_entity", "delete_entity"}, i \in EntityIds}
    \cup {[NoReq EXCEPT !.op = "update_entity", !.id = i, !.properties = b] :
        i \in EntityIds, b \in EntityBags}
    \cup {[NoReq EXCEPT !.op = "create_relation", !.type = t, !.from_entity = f,
                        !.to_entity = g, !.properties = b] :
        t \in RelationTypeNames, f \in EntityIds, g \in {NonExistentId, 2},
        b \in RelationBags}
    \cup {[NoReq EXCEPT !.op = o, !.id = i] :
        o \in {"get_relation", "delete_relation"}, i \in RelationIds}
    \cup {[NoReq EXCEPT !.op = "update_relation", !.id = i, !.properties = b] :
        i \in RelationIds, b \in RelationBags \cup {Since2024}}
    \cup {[NoReq EXCEPT !.op = "query", !.query_spec = q] : q \in QuerySpecs}
    \cup {[NoReq EXCEPT !.op = "has_entity_type", !.type = t] :
        t \in EntityTypeNames}
    \cup {[NoReq EXCEPT !.op = "has_relation_type", !.type = t] :
        t \in RelationTypeNames}

\* Mutant: create_* issues its store call without begin_transaction.
FirstStep_SkipsBegin(op) ==
    CASE op \in RegisterOps -> "validate"
      [] op \in CreateOps -> "mutate"
      [] op \in CheckedOps -> "check"
      [] op \in GetOps -> "read"
      [] op = "query" -> "query"
      [] op \in TypeExistsOps -> "lookup"

\* Mutant: query opens a transaction for its store call.
FirstStep_QueryBegins(op) ==
    CASE op \in RegisterOps -> "validate"
      [] op \in CreateOps -> "begin"
      [] op \in CheckedOps -> "check"
      [] op \in GetOps -> "read"
      [] op = "query" -> "begin"
      [] op \in TypeExistsOps -> "lookup"

\* Mutant: get_entity / get_relation open a transaction for their read.
FirstStep_GetBegins(op) ==
    CASE op \in RegisterOps -> "validate"
      [] op \in CreateOps -> "begin"
      [] op \in CheckedOps -> "check"
      [] op \in GetOps -> "begin"
      [] op = "query" -> "query"
      [] op \in TypeExistsOps -> "lookup"

FirstStep(op) ==
    CASE op \in RegisterOps -> "validate"
      [] op \in CreateOps -> "begin"
      [] op \in CheckedOps -> "check"
      [] op \in GetOps -> "read"
      [] op = "query" -> "query"
      [] op \in TypeExistsOps -> "lookup"

\* Mutant: the inner handler issues the store data call again.
InnerExcept_Retries(op) == IF op = "query" THEN "query" ELSE "mutate"

\* Where an exception raised inside the inner try takes the method: to its
\* except Exception handler.
InnerExcept(op) == "handler"

Finish(p, out) ==
    /\ pc' = [pc EXCEPT ![p] = "done"]
    /\ outcome' = [outcome EXCEPT ![p] = out]

\* A caller invokes a service method.
Start(p, r) ==
    /\ pc[p] = "idle"
    /\ ops < MaxOps
    /\ r.op = "create_entity" => next_entity_id <= MaxEntityId
    /\ r.op = "create_relation" => next_relation_id <= MaxRelationId
    /\ pc' = [pc EXCEPT ![p] = FirstStep(r.op)]
    /\ req' = [req EXCEPT ![p] = r]
    /\ local' = [local EXCEPT ![p] = NoLocal]
    /\ log' = [log EXCEPT ![p] = <<>>]
    /\ outcome' = [outcome EXCEPT ![p] = NoOutcome]
    /\ before' = [before EXCEPT ![p] = Snapshot]
    /\ ops' = ops + 1
    /\ UNCHANGED <<store_vars, last>>

\* register_*: the property loop, before any store call.
Validate(p) ==
    /\ pc[p] = "validate"
    /\ LET e == ValidateDefinition(req[p].definition)
       IN  IF e = NoErr
           THEN pc' = [pc EXCEPT ![p] = "begin"] /\ UNCHANGED outcome
           ELSE Finish(p, Raised(Surface(req[p].op, e)))
    /\ UNCHANGED <<store_vars, req, local, log, before, last, ops>>

\* update_* / delete_*: the existence read before the transaction.
Check(p) ==
    /\ pc[p] = "check"
    /\ LET op == req[p].op
           call == ReadCall(op)
           notFound == Raised(Surface(op, Err(NotFoundKind(op),
                                              NotFoundMsg(op, req[p].id))))
       IN  \/ \E k \in StoreErrorKinds :
                /\ log' = [log EXCEPT ![p] = Logged(p, call, k, TRUE)]
                /\ IF k = NotFoundKind(op)
                   THEN Finish(p, notFound)
                   ELSE Finish(p, Raised(Surface(op, Err(k, call))))
           \/ /\ req[p].id \in DOMAIN Objects(op)
              /\ log' = [log EXCEPT ![p] = Logged(p, call, "ok", FALSE)]
              /\ pc' = [pc EXCEPT ![p] = "begin"]
              /\ UNCHANGED outcome
           \/ /\ req[p].id \notin DOMAIN Objects(op)
              /\ missing_read = "raise"
              /\ log' = [log EXCEPT ![p] = Logged(p, call, NotFoundKind(op), FALSE)]
              /\ Finish(p, notFound)
           \/ /\ req[p].id \notin DOMAIN Objects(op)
              /\ missing_read = "none"
              /\ log' = [log EXCEPT ![p] = Logged(p, call, "None", FALSE)]
              /\ IF ChecksNone(op)
                 THEN Finish(p, notFound)
                 ELSE pc' = [pc EXCEPT ![p] = "begin"] /\ UNCHANGED outcome
    /\ UNCHANGED <<store_vars, req, local, before, last, ops>>

\* Mutant: begin_transaction is awaited inside the inner try.
BeginExcept_Inner(op) == "handler"

\* Where an exception raised by begin_transaction takes the method:
\* begin_transaction is awaited before the inner try, so to the outer except
\* clauses and out of the method.
BeginExcept(op) == "outer"

BeginRaises(p, e) ==
    IF BeginExcept(req[p].op) = "handler"
    THEN /\ local' = [local EXCEPT ![p].e = e]
         /\ pc' = [pc EXCEPT ![p] = "handler"]
         /\ UNCHANGED outcome
    ELSE /\ Finish(p, Raised(Surface(req[p].op, e)))
         /\ UNCHANGED local

\* await self._context.begin_transaction(), in the outer try only.
Begin(p) ==
    /\ pc[p] = "begin"
    /\ LET op == req[p].op
           call == "begin_transaction"
       IN  \/ \E k \in TxErrorKinds :
                /\ log' = [log EXCEPT ![p] = Logged(p, call, k, TRUE)]
                /\ BeginRaises(p, Err(k, call))
                /\ UNCHANGED <<in_transaction, saved>>
           \/ /\ in_transaction
              /\ log' = [log EXCEPT ![p] = Logged(p, call, "Transaction", FALSE)]
              /\ BeginRaises(p, Err("Transaction", call))
              /\ UNCHANGED <<in_transaction, saved>>
           \/ /\ ~in_transaction
              /\ log' = [log EXCEPT ![p] = Logged(p, call, "ok", FALSE)]
              /\ in_transaction' = TRUE
              /\ saved' = Data
              /\ pc' = [pc EXCEPT ![p] = "mutate"]
              /\ UNCHANGED <<outcome, local>>
    /\ UNCHANGED <<data_vars, next_entity_id, next_relation_id, missing_read,
                   req, before, last, ops>>

\* The store data call inside the inner try.
Mutate(p) ==
    /\ pc[p] = "mutate"
    /\ LET op == req[p].op
           res == MutateCall(Data, req[p])
       IN  \/ \E k \in StoreErrorKinds :
                /\ log' = [log EXCEPT ![p] = Logged(p, op, k, TRUE)]
                /\ local' = [local EXCEPT ![p].e = Err(k, op)]
                /\ pc' = [pc EXCEPT ![p] = InnerExcept(req[p].op)]
                /\ UNCHANGED <<data_vars, next_entity_id, next_relation_id>>
           \/ /\ res.err # NoErr
              /\ log' = [log EXCEPT ![p] = Logged(p, op, res.err.kind, FALSE)]
              /\ local' = [local EXCEPT ![p].e = res.err]
              /\ pc' = [pc EXCEPT ![p] = InnerExcept(req[p].op)]
              /\ UNCHANGED <<data_vars, next_entity_id, next_relation_id>>
           \/ /\ res.err = NoErr
              /\ log' = [log EXCEPT ![p] = Logged(p, op, "ok", FALSE)]
              /\ SetData(res.data)
              /\ next_entity_id' =
                    IF op = "create_entity" THEN next_entity_id + 1 ELSE next_entity_id
              /\ next_relation_id' =
                    IF op = "create_relation" THEN next_relation_id + 1
                    ELSE next_relation_id
              /\ local' = [local EXCEPT ![p].entity_id =
                              IF op \in CreateOps THEN res.ret ELSE req[p].id]
              /\ pc' = [pc EXCEPT ![p] =
                           IF op \in ReadBackOps THEN "readback" ELSE "commit"]
    /\ UNCHANGED <<in_transaction, saved, missing_read, req, outcome, before, last, ops>>

\* create_* / update_*: entity = await self._context.get_entity(entity_id).
ReadBack(p) ==
    /\ pc[p] = "readback"
    /\ LET op == req[p].op
           call == ReadCall(op)
           id == local[p].entity_id
       IN  \/ \E k \in StoreErrorKinds :
                /\ log' = [log EXCEPT ![p] = Logged(p, call, k, TRUE)]
                /\ local' = [local EXCEPT ![p].e = Err(k, call)]
                /\ pc' = [pc EXCEPT ![p] = InnerExcept(req[p].op)]
           \/ /\ id \in DOMAIN Objects(op)
              /\ log' = [log EXCEPT ![p] = Logged(p, call, "ok", FALSE)]
              /\ local' = [local EXCEPT ![p].entity = <<Objects(op)[id]>>]
              /\ pc' = [pc EXCEPT ![p] = "commit"]
           \/ /\ id \notin DOMAIN Objects(op)
              /\ missing_read = "raise"
              /\ log' = [log EXCEPT ![p] = Logged(p, call, NotFoundKind(op), FALSE)]
              /\ local' = [local EXCEPT ![p].e = Err(NotFoundKind(op), call)]
              /\ pc' = [pc EXCEPT ![p] = InnerExcept(req[p].op)]
           \/ /\ id \notin DOMAIN Objects(op)
              /\ missing_read = "none"
              /\ log' = [log EXCEPT ![p] = Logged(p, call, "None", FALSE)]
              /\ pc' = [pc EXCEPT ![p] = "commit"]
              /\ UNCHANGED local
    /\ UNCHANGED <<store_vars, req, outcome, before, last, ops>>

\* await self._context.commit_transaction(), then the return statement.
Commit(p) ==
    /\ pc[p] = "commit"
    /\ LET op == req[p].op
           call == "commit_transaction"
       IN  \/ \E k \in TxErrorKinds, closed \in BOOLEAN :
                \* A failed commit makes nothing durable; the store may have
                \* closed the transaction (closed) or left it open.
                /\ in_transaction
                /\ log' = [log EXCEPT ![p] = Logged(p, call, k, TRUE)]
                /\ local' = [local EXCEPT ![p].e = Err(k, call)]
                /\ pc' = [pc EXCEPT ![p] = InnerExcept(req[p].op)]
                /\ IF closed
                   THEN /\ SetData(saved)
                        /\ in_transaction' = FALSE
                        /\ saved' = EmptyData
                   ELSE UNCHANGED <<data_vars, in_transaction, saved>>
                /\ UNCHANGED outcome
           \/ /\ ~in_transaction
              /\ log' = [log EXCEPT ![p] = Logged(p, call, "Transaction", FALSE)]
              /\ local' = [local EXCEPT ![p].e = Err("Transaction", call)]
              /\ pc' = [pc EXCEPT ![p] = InnerExcept(req[p].op)]
              /\ UNCHANGED <<data_vars, in_transaction, saved, outcome>>
           \/ /\ in_transaction
              /\ log' = [log EXCEPT ![p] = Logged(p, call, "ok", FALSE)]
              /\ in_transaction' = FALSE
              /\ saved' = EmptyData
              /\ UNCHANGED data_vars
              /\ IF op \in ReadBackOps /\ local[p].entity = <<>>
                 THEN \* entity is None: entity.type raises inside the inner try
                      /\ local' = [local EXCEPT ![p].e = AttributeError]
                      /\ pc' = [pc EXCEPT ![p] = InnerExcept(req[p].op)]
                      /\ UNCHANGED outcome
                 ELSE /\ Finish(p, Ok(IF op \in ReadBackOps
                                      THEN <<ResultDict(op, local[p].entity_id,
                                                        local[p].entity[1])>>
                                      ELSE <<>>))
                      /\ UNCHANGED local
    /\ UNCHANGED <<next_entity_id, next_relation_id, missing_read, req, before, last, ops>>

\* Mutant: the flag test is inverted (if not in_transaction: rollback).
CallsRollback_FlagInverted(op) == op \in CreateOps \/ ~in_transaction

\* Mutant: the inner handler re-raises without rolling back.
CallsRollback_Never(op) == FALSE

\* Whether the inner handler of the method calls rollback_transaction.
CallsRollback(op) == RollsBackUnguarded(op) \/ in_transaction

\* except Exception as e: [if in_transaction:] await rollback_transaction();
\* raise e -- and the outer except clauses.
Handler(p) ==
    /\ pc[p] = "handler"
    /\ LET op == req[p].op
           call == "rollback_transaction"
       IN  IF CallsRollback(op)
           THEN \/ \E k \in TxErrorKinds :
                     \* the rollback raises: its exception replaces e
                     /\ log' = [log EXCEPT ![p] = Logged(p, call, k, TRUE)]
                     /\ Finish(p, Raised(Surface(op, Err(k, call))))
                     /\ UNCHANGED <<data_vars, in_transaction, saved>>
                \/ /\ log' = [log EXCEPT ![p] = Logged(p, call, "ok", FALSE)]
                   /\ IF in_transaction
                      THEN SetData(saved)
                      ELSE UNCHANGED data_vars
                   /\ in_transaction' = FALSE
                   /\ saved' = EmptyData
                   /\ Finish(p, Raised(Surface(op, local[p].e)))
           ELSE /\ Finish(p, Raised(Surface(op, local[p].e)))
                /\ UNCHANGED <<log, data_vars, in_transaction, saved>>
    /\ UNCHANGED <<next_entity_id, next_relation_id, missing_read, req, local,
                   before, last, ops>>

\* get_entity / get_relation: a read outside any transaction.
Read(p) ==
    /\ pc[p] = "read"
    /\ LET op == req[p].op
           id == req[p].id
           wrapped(m) == Err(NotFoundKind(op), NotFoundMsg(op, id) \o ": " \o m)
       IN  \/ \E k \in StoreErrorKinds :
                /\ log' = [log EXCEPT ![p] = Logged(p, op, k, TRUE)]
                /\ Finish(p, Raised(IF k = NotFoundKind(op) THEN Err(k, op)
                                    ELSE wrapped(op)))
           \/ /\ id \in DOMAIN Objects(op)
              /\ log' = [log EXCEPT ![p] = Logged(p, op, "ok", FALSE)]
              /\ Finish(p, Ok(<<ResultDict(op, id, Objects(op)[id])>>))
           \/ /\ id \notin DOMAIN Objects(op)
              /\ missing_read = "raise"
              /\ log' = [log EXCEPT ![p] = Logged(p, op, NotFoundKind(op), FALSE)]
              /\ Finish(p, Raised(Err(NotFoundKind(op), op)))
           \/ /\ id \notin DOMAIN Objects(op)
              /\ missing_read = "none"
              /\ log' = [log EXCEPT ![p] = Logged(p, op, "None", FALSE)]
              /\ Finish(p, Raised(wrapped(AttributeError.msg)))
    /\ UNCHANGED <<store_vars, req, local, before, last, ops>>

\* query: results = await self._context.query(query_dict), then the rows as
\* dicts.
Query(p) ==
    /\ pc[p] = "query"
    /\ LET res == StoreQuery(Data, req[p].query_spec)
       IN  \/ \E k \in StoreErrorKinds :
                /\ log' = [log EXCEPT ![p] = Logged(p, "query", k, TRUE)]
                /\ local' = [local EXCEPT ![p].e = Err(k, "query")]
                /\ pc' = [pc EXCEPT ![p] = InnerExcept(req[p].op)]
                /\ UNCHANGED outcome
           \/ /\ res.err # NoErr
              /\ log' = [log EXCEPT ![p] = Logged(p, "query", res.err.kind, FALSE)]
              /\ local' = [local EXCEPT ![p].e = res.err]
              /\ pc' = [pc EXCEPT ![p] = InnerExcept(req[p].op)]
              /\ UNCHANGED outcome
           \/ /\ res.err = NoErr
              /\ log' = [log EXCEPT ![p] = Logged(p, "query", "ok", FALSE)]
              /\ Finish(p, Ok([i \in DOMAIN res.ret |->
                                  EntityDict(res.ret[i].id, res.ret[i])]))
              /\ UNCHANGED local
    /\ UNCHANGED <<store_vars, req, before, last, ops>>

\* The store call the operation is suspended in.
PendingCall(p) ==
    CASE pc[p] \in {"check", "readback"} -> ReadCall(req[p].op)
      [] pc[p] \in {"read", "mutate", "query"} -> req[p].op
      [] pc[p] = "begin" -> "begin_transaction"
      [] pc[p] = "commit" -> "commit_transaction"
      [] pc[p] = "handler" -> "rollback_transaction"

NoAttribute(name) ==
    Err("Other", "'GraphService' object has no attribute '" \o name \o "'")

\* The type-existence routes look the method up on the service object.  The
\* class defines neither has_entity_type nor has_relation_type, so the
\* attribute lookup raises before anything is awaited and no store call is
\* made.
HasType(p) ==
    /\ pc[p] = "lookup"
    /\ Finish(p, Raised(NoAttribute(req[p].op)))
    /\ UNCHANGED <<store_vars, req, local, log, before, last, ops>>

\* The caller times out or disconnects: CancelledError is raised at the await
\* the operation is suspended in.  It is a BaseException, so neither except
\* Exception clause of the method runs.
Cancel(p) ==
    /\ \/ pc[p] \in {"check", "read", "begin", "mutate", "readback", "commit",
                    "query"}
       \/ pc[p] = "handler" /\ CallsRollback(req[p].op)
    /\ log' = [log EXCEPT ![p] = Logged(p, PendingCall(p), "Cancelled", TRUE)]
    /\ Finish(p, Raised(Surface(req[p].op, Err("Cancelled", ""))))
    /\ UNCHANGED <<store_vars, req, local, before, last, ops>>

\* The caller takes the result; the operation unit is over.
Return(p) ==
    /\ pc[p] = "done"
    /\ pc' = [pc EXCEPT ![p] = "idle"]
    /\ req' = [req EXCEPT ![p] = NoReq]
    /\ local' = [local EXCEPT ![p] = NoLocal]
    /\ log' = [log EXCEPT ![p] = <<>>]
    /\ outcome' = [outcome EXCEPT ![p] = NoOutcome]
    /\ before' = [before EXCEPT ![p] = NoSnapshot]
    /\ last' = [last EXCEPT ![p] =
                   IF outcome[p].status = "ok" /\ req[p].op \in MutatingOps
                   THEN Call(req[p], outcome[p])
                   ELSE NoCall]
    /\ UNCHANGED <<store_vars, ops>>

\* ------------------------------------------------------------ specification
\* One operation at a time: the service called by a single sequential caller.
Callers == {1}

Next ==
    \E p \in Callers :
        \/ \E r \in Requests : Start(p, r)
        \/ Validate(p)
        \/ Check(p)
        \/ Begin(p)
        \/ Mutate(p)
        \/ ReadBack(p)
        \/ Commit(p)
        \/ Handler(p)
        \/ Read(p)
        \/ Query(p)
        \/ HasType(p)
        \/ Cancel(p)
        \/ Return(p)

Spec == Init /\ [][Next]_vars

\* Two requests in flight on the one shared store context: each request gets
\* a GraphService of its own around the same context, and the event loop
\* switches between them at the awaits.  The first issues mutating calls on
\* entity 1 and relation 1, the second deletes them or queries.
ConcurrentRequests(p) ==
    IF p = 1
    THEN {[NoReq EXCEPT !.op = "update_entity", !.id = 1, !.properties = Age31],
          [NoReq EXCEPT !.op = "delete_entity", !.id = 1],
          [NoReq EXCEPT !.op = "update_relation", !.id = 1, !.properties = Since2024],
          [NoReq EXCEPT !.op = "delete_relation", !.id = 1]}
    ELSE {[NoReq EXCEPT !.op = "delete_entity", !.id = 1],
          [NoReq EXCEPT !.op = "delete_relation", !.id = 1],
          [NoReq EXCEPT !.op = "query", !.query_spec = QueryByName]}

InitConcurrent ==
    /\ Init
    /\ DOMAIN relations # {}
    /\ missing_read = "raise"

NextConcurrent ==
    \E p \in Procs :
        \/ \E r \in ConcurrentRequests(p) : Start(p, r)
        \/ Check(p)
        \/ Begin(p)
        \/ Mutate(p)
        \/ ReadBack(p)
        \/ Commit(p)
        \/ Handler(p)
        \/ Query(p)
        \/ Cancel(p)
        \/ Return(p)

SpecConcurrent == InitConcurrent /\ [][NextConcurrent]_vars

\* ------------------------------------------------------- transport (router)
\* The exception classes the route of a service method has an except clause
\* for; the register routes end with except Exception.
RouteCatches(op) ==
    CASE op = "create_entity" -> {"Validation", "Schema", "Transaction"}
      [] op \in {"get_entity", "delete_entity"} -> {"EntityNotFound", "Transaction"}
      [] op = "update_entity" -> {"Validation", "EntityNotFound", "Transaction"}
      [] op = "create_relation" ->
            {"EntityNotFound", "Validation", "Schema", "Transaction"}
      [] op \in {"get_relation", "delete_relation"} ->
            {"RelationNotFound", "Transaction"}
      [] op = "update_relation" -> {"Validation", "RelationNotFound", "Transaction"}
      [] op = "query" -> {"Validation", "Schema", "Transaction"}
      [] op \in RegisterOps -> StoreErrorKinds
      [] op \in TypeExistsOps -> {"Transaction"}

\* The HTTP status of the response to a call of the route, from what the
\* service method returned or raised.  An exception no clause catches leaves
\* the route and becomes the server's 500.
RouteStatus(op, out) ==
    IF out.status = "ok"
    THEN IF op \in TypeExistsOps /\ out.value = <<FALSE>> THEN 404 ELSE 200
    ELSE IF out.err.kind \notin RouteCatches(op) THEN 500
    ELSE CASE out.err.kind \in {"Validation", "Schema"} -> 400
           [] out.err.kind \in {"EntityNotFound", "RelationNotFound"} -> 404
           [] out.err.kind = "Transaction" -> 500
           [] OTHER -> 400

\* ------------------------------------------------------------ observations
Done(p) == pc[p] = "done"
Idx(p) == 1..Len(log[p])
CallIdx(p, c) == {i \in Idx(p) : log[p][i].call = c}
Count(p, c) == Cardinality(CallIdx(p, c))
BeginOk(p) == \E i \in CallIdx(p, "begin_transaction") : log[p][i].out = "ok"

\* The mutate, read-back and commit calls: those issued after a begin that
\* succeeded, the rollback aside.
InTxCalls(p) ==
    {i \in Idx(p) : /\ log[p][i].call # "rollback_transaction"
                    /\ \E b \in CallIdx(p, "begin_transaction") :
                          b < i /\ log[p][b].out = "ok"}
\* Those of them at which the store raised an error.
RaisedAt(p) == {i \in InTxCalls(p) : log[p][i].out \in StoreErrorKinds}
StoreRaised(p) == RaisedAt(p) # {}
\* The error the store raised there: its class, and its message (the store's
\* message names the failed call).
E(p) == LET i == CHOOSE i \in RaisedAt(p) : TRUE
        IN  Err(log[p][i].out, log[p][i].call)
RaisedIn(p) == log[p][CHOOSE i \in RaisedAt(p) : TRUE].call

CancelledOp(p) == \E i \in Idx(p) : log[p][i].out = "Cancelled"
CancelledInTx(p) == \E i \in InTxCalls(p) : log[p][i].out = "Cancelled"
RollbackRaised(p) ==
    \E i \in CallIdx(p, "rollback_transaction") : log[p][i].out \in TxErrorKinds
RollbackReturned(p) ==
    \A i \in CallIdx(p, "rollback_transaction") : log[p][i].out = "ok"
NoFault(p) == \A i \in Idx(p) : ~log[p][i].fault

\* ------------------------------------------------------------------ claims

\* C1: when a mutating operation whose begin_transaction succeeded returns or
\* raises, the store has no open transaction, whichever of the mutate,
\* read-back and commit calls the store failed and with whatever error class
\* (the rollback the operation issues returns).
C1_NoOpenTransaction ==
    \A p \in Procs :
        (/\ Done(p)
         /\ req[p].op \in MutatingOps
         /\ BeginOk(p)
         /\ ~CancelledOp(p)
         /\ RollbackReturned(p))
        => ~in_transaction

\* C1 witness: an update whose commit failed with the transaction left open
\* has been rolled back and has raised.
C1_Witness ==
    \E p \in Procs :
        /\ Done(p)
        /\ req[p].op = "update_entity"
        /\ StoreRaised(p)
        /\ RaisedIn(p) = "commit_transaction"
        /\ Count(p, "rollback_transaction") = 1
        /\ RollbackReturned(p)
        /\ ~in_transaction

\* C2 (as stated): whenever the store raises after begin_transaction
\* succeeded, the operation calls rollback_transaction exactly once and never
\* calls commit_transaction.
C2_AsStated ==
    \A p \in Procs :
        (Done(p) /\ req[p].op \in MutatingOps /\ StoreRaised(p))
        => /\ Count(p, "rollback_transaction") = 1
           /\ Count(p, "commit_transaction") = 0

\* C2 (amended): when the store raises at the mutate or read-back call,
\* rollback_transaction is called exactly once and commit_transaction never;
\* when it is commit_transaction that raises, commit was called once and
\* rollback at most once -- not at all only by an operation that tests the
\* store's flag, when the store has already closed the transaction.
C2_RollbackOnce ==
    \A p \in Procs :
        (Done(p) /\ req[p].op \in MutatingOps /\ StoreRaised(p))
        => IF RaisedIn(p) = "commit_transaction"
           THEN /\ Count(p, "commit_transaction") = 1
                /\ Count(p, "rollback_transaction") <= 1
                /\ Count(p, "rollback_transaction") = 0
                      => req[p].op \notin CreateOps /\ ~in_transaction
           ELSE /\ Count(p, "rollback_transaction") = 1
                /\ Count(p, "commit_transaction") = 0

\* C2 witness: an update whose read-back raised has called rollback once and
\* commit never.
C2_Witness ==
    \E p \in Procs :
        /\ Done(p)
        /\ req[p].op = "update_relation"
        /\ StoreRaised(p)
        /\ RaisedIn(p) = "get_relation"
        /\ Count(p, "rollback_transaction") = 1
        /\ Count(p, "commit_transaction") = 0

\* C3: a classified error (EntityNotFound, RelationNotFound, ValidationError,
\* SchemaError, Conflict) raised by a store call inside the open transaction is
\* surfaced by the operation as an error of the same class.
C3_ClassifiedSurfaced ==
    \A p \in Procs :
        (/\ Done(p)
         /\ req[p].op \in MutatingOps
         /\ StoreRaised(p)
         /\ E(p).kind \in Classified
         /\ ~CancelledOp(p)
         /\ RollbackReturned(p))
        => outcome[p].err.kind = E(p).kind

\* C4: an error that is not classified, raised by a store call inside the open
\* transaction, ends with the transaction rolled back (by one rollback call,
\* unless the failed commit had already closed it) and a TransactionError
\* carrying the original message.
C4_UnclassifiedWrapped ==
    \A p \in Procs :
        (/\ Done(p)
         /\ req[p].op \in MutatingOps
         /\ StoreRaised(p)
         /\ E(p).kind \notin Classified
         /\ ~CancelledOp(p)
         /\ RollbackReturned(p))
        => /\ outcome[p].status = "error"
           /\ outcome[p].err = Err("Transaction", E(p).msg)
           /\ ~in_transaction
           /\ Count(p, "rollback_transaction") <= 1
           /\ Count(p, "rollback_transaction") = 0
                 => RaisedIn(p) = "commit_transaction"

\* C4 witness: delete_relation whose store call raised an unclassified,
\* non-transaction exception was rolled back and raised TransactionError.
C4_Witness ==
    \E p \in Procs :
        /\ Done(p)
        /\ req[p].op = "delete_relation"
        /\ StoreRaised(p)
        /\ E(p) = Err("Other", "delete_relation")
        /\ Count(p, "rollback_transaction") = 1
        /\ RollbackReturned(p)
        /\ outcome[p].err = Err("Transaction", "delete_relation")

\* C5: when the rollback issued for a store error E itself raises, the error
\* surfaced has the class (E's, or TransactionError) and the message of E.
C5_RollbackFailureNotMasking ==
    \A p \in Procs :
        (/\ Done(p)
         /\ req[p].op \in MutatingOps
         /\ StoreRaised(p)
         /\ RollbackRaised(p))
        => /\ outcome[p].err.kind \in {E(p).kind, "Transaction"}
           /\ outcome[p].err.msg = E(p).msg

\* C6: an operation cancelled at a store call after its begin_transaction
\* succeeded calls rollback_transaction before it completes, commits nothing
\* and leaves no open transaction and no partial change.
C6_CancelRollsBack ==
    \A p \in Procs :
        (Done(p) /\ req[p].op \in MutatingOps /\ CancelledInTx(p))
        => /\ Count(p, "rollback_transaction") = 1
           /\ ~in_transaction
           /\ Data = [k \in DOMAIN Data |-> before[p][k]]

\* The store call that mutates, and the read-back calls, of an operation.
MutateIdx(p) == CallIdx(p, req[p].op)
ReadBackIdx(p) ==
    {i \in CallIdx(p, ReadCall(req[p].op)) :
        \E b \in CallIdx(p, "begin_transaction") : b < i}
EndIdx(p) == CallIdx(p, "commit_transaction") \cup CallIdx(p, "rollback_transaction")

\* C7: the store calls of one operation are issued in a fixed order: begin
\* (successful) before the mutate call, the mutate call (successful) before
\* the read-back of a create or update, the read-back directly before commit
\* (for delete and register, the mutate call directly before commit), and no
\* mutate or read-back call after the commit or the rollback.
C7_CallOrder ==
    \A p \in Procs :
        req[p].op \in MutatingOps =>
            /\ Count(p, "begin_transaction") <= 1
            /\ \A i \in MutateIdx(p) :
                  \E b \in CallIdx(p, "begin_transaction") :
                      b = i - 1 /\ log[p][b].out = "ok"
            /\ \A i \in ReadBackIdx(p) :
                  /\ req[p].op \in CreateOps \cup UpdateOps
                  /\ \E m \in MutateIdx(p) : m = i - 1 /\ log[p][m].out = "ok"
            /\ \A i \in CallIdx(p, "commit_transaction") :
                  IF req[p].op \in CreateOps \cup UpdateOps
                  THEN \E r \in ReadBackIdx(p) :
                          r = i - 1 /\ log[p][r].out \in {"ok", "None"}
                  ELSE \E m \in MutateIdx(p) : m = i - 1 /\ log[p][m].out = "ok"
            /\ \A i \in EndIdx(p) :
                  /\ \E b \in CallIdx(p, "begin_transaction") : b < i
                  /\ \A j \in MutateIdx(p) \cup ReadBackIdx(p) : j < i

\* C7 witness: a create_relation that has issued begin, create_relation,
\* get_relation and commit, in that order, and returned.
C7_Witness ==
    \E p \in Procs :
        /\ Done(p)
        /\ req[p].op = "create_relation"
        /\ outcome[p].status = "ok"
        /\ [i \in Idx(p) |-> log[p][i].call] =
              <<"begin_transaction", "create_relation", "get_relation",
                "commit_transaction">>

\* C8: an entity made by create_entity is in the store only if that call's
\* commit_transaction succeeded: after a create_entity that the store failed
\* at the mutate, read-back or commit call, the store's entities are those
\* from before the call; after one that returned, they are those plus the
\* entity returned.
C8_EntityOnlyIfCommitted ==
    \A p \in Procs :
        (/\ Done(p)
         /\ req[p].op = "create_entity"
         /\ ~CancelledOp(p)
         /\ RollbackReturned(p))
        => IF outcome[p].status = "ok"
           THEN /\ \E i \in CallIdx(p, "commit_transaction") : log[p][i].out = "ok"
                /\ DOMAIN entities =
                      DOMAIN before[p].entities \cup {outcome[p].value[1].id}
                /\ outcome[p].value[1].id \notin DOMAIN before[p].entities
           ELSE entities = before[p].entities

\* C8 witness: a create_entity whose entity was stored and read back, and
\* whose commit then failed, has left the store's entities as they were.
C8_Witness ==
    \E p \in Procs :
        /\ Done(p)
        /\ req[p].op = "create_entity"
        /\ StoreRaised(p)
        /\ RaisedIn(p) = "commit_transaction"
        /\ RollbackReturned(p)
        /\ local[p].entity_id \notin DOMAIN entities
        /\ entities = before[p].entities

\* C9: update_entity on an id the store does not hold never calls
\* commit_transaction and leaves the store's entities as they were, and, when
\* the store answers its calls as its contract says, raises EntityNotFound.
C9_UpdateMissing ==
    \A p \in Procs :
        (/\ Done(p)
         /\ req[p].op = "update_entity"
         /\ req[p].id \notin DOMAIN before[p].entities)
        => /\ Count(p, "commit_transaction") = 0
           /\ entities = before[p].entities
           /\ (NoFault(p) /\ ~before[p].in_transaction)
                 => /\ outcome[p].status = "error"
                    /\ outcome[p].err.kind = "EntityNotFound"

\* C9 witness: an update_entity of an unknown id whose existence read returned
\* None has begun a transaction, been refused by the store, rolled back and
\* raised EntityNotFound.
C9_Witness ==
    \E p \in Procs :
        /\ Done(p)
        /\ req[p].op = "update_entity"
        /\ req[p].id \notin DOMAIN before[p].entities
        /\ NoFault(p)
        /\ BeginOk(p)
        /\ Count(p, "rollback_transaction") = 1
        /\ outcome[p].err.kind = "EntityNotFound"
        /\ entities = before[p].entities

\* C10: update_entity, delete_entity, update_relation and delete_relation on
\* an id the store does not hold -- whether its read raises NotFound or
\* returns no object -- raise EntityNotFound / RelationNotFound and never call
\* begin_transaction.
C10_ExistenceCheckedFirst ==
    \A p \in Procs :
        (/\ Done(p)
         /\ req[p].op \in UpdateOps \cup DeleteOps
         /\ req[p].id \notin DOMAIN (IF req[p].op \in EntityOps
                                     THEN before[p].entities
                                     ELSE before[p].relations)
         /\ NoFault(p))
        => /\ outcome[p].err.kind = NotFoundKind(req[p].op)
           /\ Count(p, "begin_transaction") = 0

\* The registered types a register call adds to, as they were when it was
\* called.
TypesBefore(p) ==
    IF req[p].op = "register_entity_type"
    THEN before[p].entity_types ELSE before[p].relation_types
TypesNow(p) ==
    IF req[p].op = "register_entity_type" THEN entity_types ELSE relation_types

\* C11: registering an entity or relation type under a name that is already
\* registered raises Conflict -- HTTP 409 at the route -- and leaves the
\* registered definitions as they were.
C11_DuplicateIsConflict ==
    \A p \in Procs :
        (/\ Done(p)
         /\ req[p].op \in RegisterOps
         /\ ValidateDefinition(req[p].definition) = NoErr
         /\ req[p].definition.name \in DOMAIN TypesBefore(p)
         /\ NoFault(p)
         /\ ~before[p].in_transaction)
        => /\ outcome[p].err.kind = "Conflict"
           /\ RouteStatus(req[p].op, outcome[p]) = 409
           /\ TypesNow(p) = TypesBefore(p)

\* The entity types a relation type definition names that are not registered.
Dangling(def, types) == (def.from_types \cup def.to_types) \ DOMAIN types

\* C12: register_relation_type with a definition that names an entity type
\* that is not registered raises SchemaError, after one rollback and no
\* commit; the store has no open transaction and its relation types are those
\* from before the call.
C12_DanglingIsSchemaError ==
    \A p \in Procs :
        (/\ Done(p)
         /\ req[p].op = "register_relation_type"
         /\ ValidateDefinition(req[p].definition) = NoErr
         /\ Dangling(req[p].definition, before[p].entity_types) # {}
         /\ NoFault(p)
         /\ ~before[p].in_transaction)
        => /\ outcome[p].status = "error"
           /\ outcome[p].err.kind = "Schema"
           /\ Count(p, "rollback_transaction") = 1
           /\ Count(p, "commit_transaction") = 0
           /\ ~in_transaction
           /\ relation_types = before[p].relation_types

\* C12 witness: WORKS_AT, whose to_types names NonExistentType, was refused on
\* a store that has Person registered: SchemaError after one rollback.
C12_Witness ==
    \E p \in Procs :
        /\ Done(p)
        /\ req[p].op = "register_relation_type"
        /\ req[p].definition = DanglingDef
        /\ "Person" \in DOMAIN entity_types
        /\ NoFault(p)
        /\ outcome[p].err.kind = "Schema"
        /\ Count(p, "rollback_transaction") = 1
        /\ "WORKS_AT" \notin DOMAIN relation_types

\* Some property of the definition has a kind that is no PropertyType.
UnrecognizedKind(def) ==
    \E k \in DOMAIN def.properties : def.properties[k].type \notin PropertyType

\* C13: register_entity_type and register_relation_type given a definition
\* with a property of unrecognized kind issue no store call at all, and raise
\* ValidationError.
C13_InvalidKindNoStoreCall ==
    \A p \in Procs :
        (req[p].op \in RegisterOps /\ UnrecognizedKind(req[p].definition))
        => /\ log[p] = <<>>
           /\ Done(p) => /\ outcome[p].status = "error"
                          /\ outcome[p].err.kind = "Validation"

\* C13 witness: register_relation_type of a definition with an INVALID_TYPE
\* property has raised ValidationError with no store call issued.
C13_Witness ==
    \E p \in Procs :
        /\ Done(p)
        /\ req[p].op = "register_relation_type"
        /\ req[p].definition = InvalidKindRelDef
        /\ outcome[p].err.kind = "Validation"
        /\ log[p] = <<>>

\* C14: create_relation with a from_entity or to_entity that is not the id of
\* an entity in the store raises EntityNotFound -- 404 at the route -- after
\* one rollback and no commit; the store has no open transaction and its
\* relations are those from before the call.
C14_MissingEndpointIsNotFound ==
    \A p \in Procs :
        (/\ Done(p)
         /\ req[p].op = "create_relation"
         /\ \/ req[p].from_entity \notin DOMAIN before[p].entities
            \/ req[p].to_entity \notin DOMAIN before[p].entities
         /\ NoFault(p)
         /\ ~before[p].in_transaction)
        => /\ outcome[p].status = "error"
           /\ outcome[p].err.kind = "EntityNotFound"
           /\ RouteStatus(req[p].op, outcome[p]) = 404
           /\ Count(p, "rollback_transaction") = 1
           /\ Count(p, "commit_transaction") = 0
           /\ ~in_transaction
           /\ relations = before[p].relations

\* C14 witness: a KNOWS relation from an existing entity to an unknown id was
\* refused with EntityNotFound and rolled back.
C14_Witness ==
    \E p \in Procs :
        /\ Done(p)
        /\ req[p].op = "create_relation"
        /\ req[p].type = "KNOWS"
        /\ req[p].properties = Since2023
        /\ req[p].from_entity \in DOMAIN entities
        /\ req[p].to_entity = NonExistentId
        /\ NoFault(p)
        /\ outcome[p].err.kind = "EntityNotFound"
        /\ Count(p, "rollback_transaction") = 1
        /\ relations = before[p].relations

\* C15: a mutating operation whose begin_transaction has not succeeded --
\* its definition was refused, its existence read failed, begin itself
\* raised -- has called neither rollback_transaction nor commit_transaction.
C15_NoRollbackBeforeBegin ==
    \A p \in Procs :
        (req[p].op \in MutatingOps /\ ~BeginOk(p))
        => /\ Count(p, "rollback_transaction") = 0
           /\ Count(p, "commit_transaction") = 0

\* C15 witness: a delete_entity whose begin_transaction raised has surfaced
\* TransactionError with begin as its last store call.
C15_Witness ==
    \E p \in Procs :
        /\ Done(p)
        /\ req[p].op = "delete_entity"
        /\ Len(log[p]) = 2
        /\ log[p][2].call = "begin_transaction"
        /\ log[p][2].out = "Transaction"
        /\ outcome[p].err = Err("Transaction", "begin_transaction")
        /\ Count(p, "rollback_transaction") = 0

\* The store's query call of a query operation raised an error of the store.
QueryRaised(p) ==
    \E i \in CallIdx(p, "query") : log[p][i].out \in StoreErrorKinds
QueryError(p) == log[p][CHOOSE i \in CallIdx(p, "query") : TRUE].out

\* C16: when the store's query call raises while the store has an open
\* transaction, query calls rollback_transaction once, after the query call,
\* and (the rollback returning) the store has no open transaction when query
\* raises.
C16_QueryRollsBack ==
    \A p \in Procs :
        (/\ Done(p)
         /\ req[p].op = "query"
         /\ QueryRaised(p)
         /\ before[p].in_transaction
         /\ ~CancelledOp(p))
        => /\ Count(p, "rollback_transaction") = 1
           /\ \A r \in CallIdx(p, "rollback_transaction") :
                 \A q \in CallIdx(p, "query") : q < r
           /\ outcome[p].status = "error"
           /\ RollbackReturned(p) => ~in_transaction

\* C16 witness: a query of an unregistered type, issued while a transaction
\* was open, was refused by the store; the transaction has been rolled back.
C16_Witness ==
    \E p \in Procs :
        /\ Done(p)
        /\ req[p].op = "query"
        /\ req[p].query_spec = QueryInvalidType
        /\ before[p].in_transaction
        /\ QueryRaised(p)
        /\ Count(p, "rollback_transaction") = 1
        /\ RollbackReturned(p)
        /\ ~in_transaction

\* C17: query never calls begin_transaction or commit_transaction, and a
\* query that returns leaves the store's entities, relations, registered
\* types and transaction state as they were when it was called.
C17_QueryReadOnly ==
    \A p \in Procs :
        req[p].op = "query"
        => /\ Count(p, "begin_transaction") = 0
           /\ Count(p, "commit_transaction") = 0
           /\ (Done(p) /\ outcome[p].status = "ok")
                 => /\ Snapshot = before[p]
                    /\ [i \in Idx(p) |-> log[p][i].call] = <<"query">>

\* C17 witness: a query by name has returned one Person row, with the store
\* as it was.
C17_Witness ==
    \E p \in Procs :
        /\ Done(p)
        /\ req[p].op = "query"
        /\ req[p].query_spec = QueryByName
        /\ outcome[p].status = "ok"
        /\ Len(outcome[p].value) = 1
        /\ outcome[p].value[1] = EntityDict(1, Person1)
        /\ Cardinality(DOMAIN entities) = 2
        /\ Snapshot = before[p]

\* C18: when the store's query call raises SchemaError, query raises
\* SchemaError; when it raises ValidationError, query raises ValidationError.
C18_QueryErrorUnchanged ==
    \A p \in Procs :
        (/\ Done(p)
         /\ req[p].op = "query"
         /\ QueryRaised(p)
         /\ QueryError(p) \in {"Schema", "Validation"}
         /\ NoFault(p)
         /\ ~before[p].in_transaction)
        => outcome[p].err.kind = QueryError(p)

\* A get_entity that follows a create_entity of the same caller that
\* returned, asks for the id returned, and is answered by the store.
GetAfterCreate(p) ==
    /\ Done(p)
    /\ req[p].op = "get_entity"
    /\ last[p].req.op = "create_entity"
    /\ req[p].id = last[p].outcome.value[1].id
    /\ NoFault(p)

\* C19: the id create_entity returns is an id (not the empty one) of an
\* entity in the store, and the get_entity with that id issued next returns
\* the id, type and properties create_entity returned.
C19_CreateThenGet ==
    \A p \in Procs :
        /\ (Done(p) /\ req[p].op = "create_entity" /\ outcome[p].status = "ok")
              => /\ outcome[p].value[1].id # NonExistentId
                 /\ outcome[p].value[1].id \in DOMAIN entities
        /\ GetAfterCreate(p)
              => /\ outcome[p].status = "ok"
                 /\ outcome[p].value = last[p].outcome.value

\* C19 witness: create_entity returned entity 1 of type Person, and the
\* get_entity(1) issued next has returned the same dict.
C19_Witness ==
    \E p \in Procs :
        /\ GetAfterCreate(p)
        /\ req[p].id = 1
        /\ outcome[p].status = "ok"
        /\ outcome[p].value = <<EntityDict(1, Person1)>>
        /\ last[p].outcome.value = <<EntityDict(1, Person1)>>

\* C20: round trip -- the properties get_entity returns for the id that
\* create_entity(T, P) returned are P.
C20_RoundTrip ==
    \A p \in Procs :
        GetAfterCreate(p)
        => /\ outcome[p].status = "ok"
           /\ outcome[p].value[1].properties = last[p].req.properties

\* C20 witness: create_entity("Person", {name, age}) returned an id, and the
\* get_entity of that id has returned those two properties.
C20_Witness ==
    \E p \in Procs :
        /\ GetAfterCreate(p)
        /\ last[p].req.type = "Person"
        /\ last[p].req.properties = Alice30
        /\ req[p].id = 2
        /\ outcome[p].status = "ok"
        /\ outcome[p].value[1].properties = Alice30

\* A call that follows a call of the same caller that returned, for the id
\* that call was about.
Follows(p, op, prev) ==
    /\ Done(p)
    /\ req[p].op = op
    /\ last[p].req.op = prev
    /\ req[p].id = last[p].req.id

C22_DeletedIsGone ==
    \A p \in Procs :
        /\ (\/ Follows(p, "get_entity", "delete_entity")
            \/ Follows(p, "delete_entity", "delete_entity") /\ NoFault(p))
              => /\ ~CancelledOp(p) => outcome[p].err.kind = "EntityNotFound"
                 /\ req[p].id \notin DOMAIN entities
        /\ (\/ Follows(p, "get_relation", "delete_relation")
            \/ Follows(p, "delete_relation", "delete_relation") /\ NoFault(p))
              => /\ ~CancelledOp(p) => outcome[p].err.kind = "RelationNotFound"
                 /\ req[p].id \notin DOMAIN relations

\* C22 witness: a second delete_entity of the id just deleted has raised
\* EntityNotFound from its existence read, the store returning None.
C22_Witness ==
    \E p \in Procs :
        /\ Follows(p, "delete_entity", "delete_entity")
        /\ NoFault(p)
        /\ missing_read = "none"
        /\ outcome[p].err.kind = "EntityNotFound"
        /\ Count(p, "begin_transaction") = 0

\* C23: the two endpoints of every relation in the store are ids of entities
\* in the store; a delete_entity(e) that returned has left no relation with e
\* as an endpoint, and get_relation of an id the store does not hold raises
\* RelationNotFound.
C23_EndpointsExist ==
    /\ \A r \in DOMAIN relations :
          /\ relations[r].from_entity \in DOMAIN entities
          /\ relations[r].to_entity \in DOMAIN entities
    /\ \A p \in Procs :
          /\ (Done(p) /\ req[p].op = "delete_entity" /\ outcome[p].status = "ok")
                => \A r \in DOMAIN before[p].relations :
                      req[p].id \in {before[p].relations[r].from_entity,
                                     before[p].relations[r].to_entity}
                      => r \notin DOMAIN relations
          /\ (/\ Done(p)
              /\ req[p].op = "get_relation"
              /\ req[p].id \notin DOMAIN relations
              /\ ~CancelledOp(p))
                => outcome[p].err.kind = "RelationNotFound"

\* C23 witness: delete_entity of an endpoint of relation 1 has returned, and
\* relation 1 is gone with it.
C23_Witness ==
    \E p \in Procs :
        /\ Done(p)
        /\ req[p].op = "delete_entity"
        /\ outcome[p].status = "ok"
        /\ 1 \in DOMAIN before[p].relations
        /\ before[p].relations[1].to_entity = req[p].id
        /\ 1 \notin DOMAIN relations

C25_UpdateKeepsIdentity ==
    \A p \in Procs :
        /\ req[p].op = "update_entity"
              => /\ DOMAIN entities = DOMAIN before[p].entities
                 /\ \A e \in DOMAIN entities :
                       entities[e].type = before[p].entities[e].type
                 /\ (Done(p) /\ outcome[p].status = "ok")
                       => /\ outcome[p].value[1].id = req[p].id
                          /\ outcome[p].value[1].entity_type =
                                before[p].entities[req[p].id].type
        /\ req[p].op = "update_relation"
              => /\ DOMAIN relations = DOMAIN before[p].relations
                 /\ \A r \in DOMAIN relations :
                       /\ relations[r].type = before[p].relations[r].type
                       /\ relations[r].from_entity =
                             before[p].relations[r].from_entity
                       /\ relations[r].to_entity = before[p].relations[r].to_entity
                 /\ (Done(p) /\ outcome[p].status = "ok")
                       => LET r == before[p].relations[req[p].id]
                              v == outcome[p].value[1]
                          IN  /\ v.id = req[p].id
                              /\ v.type = r.type
                              /\ v.from_entity = r.from_entity
                              /\ v.to_entity = r.to_entity

\* C25 witness: update_relation(1, {since: 2024}) has returned relation 1
\* from 1 to 2 with the new property.
C25_Witness ==
    \E p \in Procs :
        /\ Done(p)
        /\ req[p].op = "update_relation"
        /\ outcome[p].status = "ok"
        /\ outcome[p].value[1] =
              [id |-> 1, type |-> "KNOWS", from_entity |-> 1, to_entity |-> 2,
               properties |-> Since2024]
        /\ before[p].relations[1].properties = Since2023

\* The entities in the store that a query specification asks for.
Matching(q) ==
    {x \in DOMAIN entities :
        /\ entities[x].type = q.entity_type
        /\ \A i \in DOMAIN q.conditions :
              Satisfies(entities[x].properties, q.conditions[i])}

\* C26: a query with property conditions returns one dict {id, entity_type,
\* properties} for each entity of the type that satisfies all the conditions,
\* and nothing else: all entities of the type for an empty condition list,
\* the empty list when none matches.
C26_QueryReturnsMatches ==
    \A p \in Procs :
        (/\ Done(p)
         /\ req[p].op = "query"
         /\ outcome[p].status = "ok"
         /\ \A i \in DOMAIN req[p].query_spec.conditions :
               ~IsRelationCondition(req[p].query_spec.conditions[i])
         /\ ~before[p].in_transaction)
        => LET M == Matching(req[p].query_spec)
               v == outcome[p].value
           IN  /\ Len(v) = Cardinality(M)
               /\ {v[i] : i \in DOMAIN v} =
                     {[id |-> x, entity_type |-> entities[x].type,
                       properties |-> entities[x].properties] : x \in M}

\* C26 witness: of two Persons, the query name = 1 and age > 25 has returned
\* the one that matches.
C26_Witness ==
    \E p \in Procs :
        /\ Done(p)
        /\ req[p].op = "query"
        /\ req[p].query_spec = QueryNameAndAge
        /\ DOMAIN entities = {1, 2}
        /\ outcome[p].status = "ok"
        /\ outcome[p].value =
              <<[id |-> 1, entity_type |-> "Person", properties |-> Alice30]>>

\* C27: with a KNOWS relation from A to B in the store, the query with the
\* relation condition {relation_type: KNOWS, from_entity: A, direction:
\* outbound} returns exactly one relation, in the relation shape, with
\* from_entity A and to_entity B.
C27_RelationQueryShape ==
    \A p \in Procs :
        (/\ Done(p)
         /\ req[p].op = "query"
         /\ req[p].query_spec = QueryKnowsFrom
         /\ before[p].relations = (1 :> Knows12)
         /\ NoFault(p)
         /\ ~before[p].in_transaction)
        => /\ outcome[p].status = "ok"
           /\ Len(outcome[p].value) = 1
           /\ "from_entity" \in DOMAIN outcome[p].value[1]
           /\ outcome[p].value[1].from_entity = 1
           /\ outcome[p].value[1].to_entity = 2

\* C28: get_entity and get_relation call none of begin_transaction,
\* commit_transaction and rollback_transaction, and for an id the store does
\* not hold they raise EntityNotFound / RelationNotFound.
C28_GetIsDirectRead ==
    \A p \in Procs :
        req[p].op \in GetOps
        => /\ Count(p, "begin_transaction") = 0
           /\ Count(p, "commit_transaction") = 0
           /\ Count(p, "rollback_transaction") = 0
           /\ (/\ Done(p)
               /\ ~CancelledOp(p)
               /\ req[p].id \notin DOMAIN (IF req[p].op = "get_entity"
                                           THEN before[p].entities
                                           ELSE before[p].relations))
                 => /\ outcome[p].status = "error"
                    /\ outcome[p].err.kind =
                          (IF req[p].op = "get_entity"
                           THEN "EntityNotFound" ELSE "RelationNotFound")

\* C28 witness: get_relation of an unknown id, the store raising
\* RelationNotFound, has raised it after that one store call.
C28_Witness ==
    \E p \in Procs :
        /\ Done(p)
        /\ req[p].op = "get_relation"
        /\ req[p].id = NonExistentId
        /\ missing_read = "raise"
        /\ NoFault(p)
        /\ [i \in Idx(p) |-> log[p][i].call] = <<"get_relation">>
        /\ outcome[p].err = Err("RelationNotFound", "get_relation")

\* C29: within one operation begin_transaction, the store data call,
\* commit_transaction and rollback_transaction are each issued at most once,
\* and after a store call has raised nothing but the rollback is issued.
C29_NoRetry ==
    \A p \in Procs :
        /\ Count(p, "begin_transaction") <= 1
        /\ Count(p, "commit_transaction") <= 1
        /\ Count(p, "rollback_transaction") <= 1
        /\ req[p].op \in MutatingOps \cup GetOps \cup {"query"}
              => Count(p, req[p].op) <= 1
        /\ \A i, j \in Idx(p) :
              (i < j /\ log[p][i].out \in StoreErrorKinds \cup {"Cancelled"})
              => log[p][j].call = "rollback_transaction"

\* C29 witness: an update_relation whose store call raised has issued the
\* existence read, begin, the update and the rollback, and nothing more.
C29_Witness ==
    \E p \in Procs :
        /\ Done(p)
        /\ req[p].op = "update_relation"
        /\ [i \in Idx(p) |-> log[p][i].call] =
              <<"get_relation", "begin_transaction", "update_relation",
                "rollback_transaction">>
        /\ log[p][3].out = "Validation"
        /\ outcome[p].status = "error"

\* The HTTP status the kind of an outcome stands for.
StatusOfKind(out) ==
    CASE out.status = "ok" -> 200
      [] out.err.kind \in {"EntityNotFound", "RelationNotFound"} -> 404
      [] out.err.kind \in {"Validation", "Schema"} -> 400
      [] OTHER -> 500

\* C30: the route of every service method answers with the status of the
\* outcome's kind: success 200, EntityNotFound / RelationNotFound 404,
\* ValidationError 400, SchemaError 400, TransactionError 500.
C30_StatusByKind ==
    \A p \in Procs :
        (Done(p) /\ ~CancelledOp(p))
        => RouteStatus(req[p].op, outcome[p]) = StatusOfKind(outcome[p])


\* C31: a type-existence route answers 200 exactly when the named type is
\* registered in the store and 404 otherwise.
C31_TypeExists ==
    \A p \in Procs :
        Done(p) /\ req[p].op \in TypeExistsOps
        => RouteStatus(req[p].op, outcome[p]) =
              IF req[p].type \in DOMAIN (IF req[p].op = "has_entity_type"
                                          THEN entity_types ELSE relation_types)
              THEN 200 ELSE 404

\* C35: a mutating operation returns normally only after its commit returned:
\* commit is its last store call and returned, it was called exactly once and
\* rollback not at all; create and update return the dict of the object read
\* back inside the transaction, before the commit.
C35_ReturnsAfterCommit ==
    \A p \in Procs :
        (Done(p) /\ req[p].op \in MutatingOps /\ outcome[p].status = "ok")
        => /\ Count(p, "commit_transaction") = 1
           /\ Count(p, "rollback_transaction") = 0
           /\ log[p][Len(log[p])].call = "commit_transaction"
           /\ log[p][Len(log[p])].out = "ok"
           /\ req[p].op \in ReadBackOps
              => /\ \E i \in ReadBackIdx(p) :
                       log[p][i].out = "ok" /\ i = Len(log[p]) - 1
                 /\ local[p].entity # <<>>
                 /\ outcome[p].value # <<>>
                 /\ LET read == local[p].entity[1]
                        dict == outcome[p].value[1]
                    IN  /\ dict.id = local[p].entity_id
                        /\ dict.properties = read.properties
                        /\ IF req[p].op \in EntityOps
                           THEN dict.entity_type = read.type
                           ELSE /\ dict.type = read.type
                                /\ dict.from_entity = read.from_entity
                                /\ dict.to_entity = read.to_entity

C35_Witness ==
    \E p \in Procs :
        /\ Done(p)
        /\ req[p].op = "update_relation"
        /\ outcome[p].status = "ok"
        /\ Count(p, "commit_transaction") = 1
        /\ outcome[p].value[1].properties = local[p].entity[1].properties
        /\ outcome[p].value[1].properties # before[p].relations[req[p].id].properties

\* C36: when update_entity, delete_entity, create_relation, update_relation,
\* delete_relation or a register_* call fails, the store's committed entities,
\* relations and registered types are those from before the call; once the
\* handler's rollback has returned, the data the store shows is that data.
\* (A call made while a transaction is open fails at begin and touches
\* nothing: the store is as it was, the transaction still open.)
C36_UnchangedOnError ==
    \A p \in Procs :
        (/\ Done(p)
         /\ req[p].op \in MutatingOps \ {"create_entity"}
         /\ outcome[p].status = "error")
        => IF before[p].in_transaction
           THEN Snapshot = before[p]
           ELSE /\ Committed.entities = before[p].entities
                /\ Committed.relations = before[p].relations
                /\ Committed.entity_types = before[p].entity_types
                /\ Committed.relation_types = before[p].relation_types
                /\ (~CancelledOp(p) /\ RollbackReturned(p))
                   => /\ ~in_transaction
                      /\ entities = before[p].entities
                      /\ relations = before[p].relations
                      /\ entity_types = before[p].entity_types
                      /\ relation_types = before[p].relation_types

\* delete_entity removed the entity and its relations inside the transaction,
\* the commit failed, and the handler's rollback brought both back.
C36_Witness ==
    \E p \in Procs :
        /\ Done(p)
        /\ req[p].op = "delete_entity"
        /\ outcome[p].status = "error"
        /\ ~before[p].in_transaction
        /\ before[p].relations # <<>>
        /\ \E i \in Idx(p) : log[p][i].call = "delete_entity" /\ log[p][i].out = "ok"
        /\ \E i \in Idx(p) : log[p][i].call = "commit_transaction" /\ log[p][i].fault
        /\ Count(p, "rollback_transaction") = 1
        /\ RollbackReturned(p)
        /\ entities = before[p].entities
        /\ relations = before[p].relations

\* C37: whatever the store raises, each method raises only the classes of its
\* closed failure set.
C37_ClosedFailureSets ==
    \A p \in Procs :
        (Done(p) /\ outcome[p].status = "error" /\ ~CancelledOp(p)
                 /\ req[p].op \notin TypeExistsOps)
        => LET op == req[p].op
               kind == outcome[p].err.kind
           IN  CASE op = "create_entity" -> kind \in {"Validation", "Transaction"}
                 [] op = "update_entity" ->
                       kind \in {"EntityNotFound", "Validation", "Transaction"}
                 [] op = "delete_entity" -> kind \in {"EntityNotFound", "Transaction"}
                 [] op = "create_relation" ->
                       kind \in {"Validation", "EntityNotFound", "Transaction"}
                 [] op = "update_relation" ->
                       kind \in {"RelationNotFound", "Validation", "Transaction"}
                 [] op = "delete_relation" ->
                       kind \in {"RelationNotFound", "Transaction"}
                 [] op = "register_entity_type" ->
                       kind \in {"Validation", "Transaction"}
                 [] op = "register_relation_type" ->
                       kind \in {"Validation", "Schema", "Transaction"}
                 [] op = "get_entity" -> kind = "EntityNotFound"
                 [] op = "get_relation" -> kind = "RelationNotFound"
                 [] op = "query" -> kind \in {"Validation", "EntityNotFound"}

\* The store raised a class outside the method's set and the method raised
\* one inside it: a SchemaError from the store's create_entity surfaced as
\* TransactionError, an error of no service class from the store's query as
\* ValidationError.
C37_Witness ==
    \E p \in Procs :
        /\ Done(p)
        /\ outcome[p].status = "error"
        /\ \/ /\ req[p].op = "create_entity"
              /\ \E i \in Idx(p) : log[p][i].call = "create_entity"
                                   /\ log[p][i].out = "Schema"
              /\ RollbackReturned(p)
              /\ outcome[p].err.kind = "Transaction"
           \/ /\ req[p].op = "query"
              /\ \E i \in Idx(p) : log[p][i].call = "query" /\ log[p][i].out = "Other"
              /\ outcome[p].err.kind = "Validation"

\* C38: every error class a service method raises is caught by an except
\* clause of the route that calls it; none leaves the route unhandled.
C38_RoutesHandleAll ==
    \A p \in Procs :
        (/\ Done(p)
         /\ outcome[p].status = "error"
         /\ ~CancelledOp(p)
         /\ req[p].op \in MutatingOps \cup GetOps \cup {"query"})
        => outcome[p].err.kind \in RouteCatches(req[p].op)

\* C39: rollback_transaction is called only while the store has an active
\* transaction; after a commit that failed and closed the transaction, no
\* method calls it.
C39_RollbackOnlyInTransaction ==
    [][\A p \in Procs :
          (/\ Len(log'[p]) = Len(log[p]) + 1
           /\ log'[p][Len(log'[p])].call = "rollback_transaction")
          => in_transaction]_vars

\* C32: with two operations interleaved on the shared context, only the
\* operation that began a transaction commits it or rolls it back: an
\* operation that has issued a commit or a rollback began a transaction
\* itself -- a query, which begins none, issues neither, also when its store
\* call raises while the other operation's transaction is open.
C32_OwnTransactionOnly ==
    \A p \in Procs : EndIdx(p) # {} => BeginOk(p)

\* The operation's begin_transaction raised; BeginRefused: it raised because
\* a transaction was open on the context.
BeginFailed(p) ==
    \E i \in CallIdx(p, "begin_transaction") : log[p][i].out \in TxErrorKinds
BeginRefused(p) ==
    \E i \in CallIdx(p, "begin_transaction") :
        log[p][i].out \in TxErrorKinds /\ ~log[p][i].fault
\* The operation is between its begin and the return of its commit.
HoldsTransaction(p) == BeginOk(p) /\ pc[p] \in {"mutate", "readback", "commit"}

\* C33: with two mutating operations interleaved on the shared context, an
\* operation whose begin_transaction fails raises TransactionError and issues
\* no mutate, commit or rollback call; when it failed because the other
\* operation's transaction was open, the transaction stays open while the
\* other operation is in it, and once the other operation has returned and
\* the transaction is closed, its change is in the store.
C33_FailedBeginTouchesNothing ==
    \A p \in Procs :
        (Done(p) /\ req[p].op \in MutatingOps /\ BeginFailed(p))
        => /\ outcome[p].status = "error"
           /\ outcome[p].err.kind = "Transaction"
           /\ MutateIdx(p) = {}
           /\ EndIdx(p) = {}
           /\ log[p][Len(log[p])].call = "begin_transaction"
           /\ \A q \in Procs \ {p} :
                 /\ (BeginRefused(p) /\ HoldsTransaction(q))
                    => in_transaction
                 /\ (BeginRefused(p) /\ Done(q) /\ outcome[q].status = "ok"
                                     /\ req[q].op \in MutatingOps
                                     /\ ~in_transaction)
                    => /\ req[q].op = "update_entity"
                          => entities[req[q].id].properties =
                                outcome[q].value[1].properties
                       /\ req[q].op = "update_relation"
                          => relations[req[q].id].properties =
                                outcome[q].value[1].properties
                       /\ req[q].op = "delete_entity"
                          => req[q].id \notin DOMAIN entities
                       /\ req[q].op = "delete_relation"
                          => req[q].id \notin DOMAIN relations

\* delete_entity was refused its begin while update_entity held the
\* transaction; update_entity then committed its change.
C33_Witness ==
    \E p, q \in Procs :
        /\ p # q
        /\ Done(p) /\ req[p].op = "delete_entity" /\ BeginRefused(p)
        /\ outcome[p].err.kind = "Transaction"
        /\ Done(q) /\ req[q].op = "update_entity" /\ outcome[q].status = "ok"
        /\ ~before[q].in_transaction
        /\ before[p].in_transaction
        /\ ~in_transaction
        /\ req[p].id \in DOMAIN entities
        /\ entities[req[q].id].properties # before[q].entities[req[q].id].properties

\* The existence read of an update or delete found the object, and the store
\* call inside the transaction found it gone.
DeletedInBetween(p) ==
    /\ req[p].op \in CheckedOps
    /\ log[p] # <<>>
    /\ log[p][1].call = ReadCall(req[p].op)
    /\ log[p][1].out = "ok"
    /\ \E i \in MutateIdx(p) :
          log[p][i].out = NotFoundKind(req[p].op) /\ ~log[p][i].fault

\* C34: when the object is deleted by another operation between the existence
\* read of update_entity / delete_entity and their store call inside the
\* transaction, the operation never commits, its handler rolls the open
\* transaction back, and it raises EntityNotFound, not TransactionError;
\* update_relation and delete_relation likewise with RelationNotFound.
C34_DeletedInBetween ==
    [][\A p \in Procs :
          (pc[p] = "handler" /\ DeletedInBetween(p) /\ pc'[p] = "done")
          => /\ Count(p, "commit_transaction") = 0
             /\ IF in_transaction
                THEN /\ Len(log'[p]) = Len(log[p]) + 1
                     /\ log'[p][Len(log'[p])].call = "rollback_transaction"
                     /\ log'[p][Len(log'[p])].out = "ok"
                        => /\ ~in_transaction'
                           /\ outcome'[p].err.kind = NotFoundKind(req[p].op)
                ELSE /\ log'[p] = log[p]
                     /\ outcome'[p].err.kind = NotFoundKind(req[p].op)
             /\ outcome'[p].status = "error"]_vars

C34_Witness ==
    \E p \in Procs :
        /\ Done(p)
        /\ req[p].op = "update_entity"
        /\ DeletedInBetween(p)
        /\ RollbackReturned(p)
        /\ Count(p, "rollback_transaction") = 1
        /\ outcome[p].err.kind = "EntityNotFound"
        /\ req[p].id \in DOMAIN before[p].entities
        /\ req[p].id \notin DOMAIN entities

====
